---- MODULE Spec2Model ----
(***************************************************************************)
(* Model of datasc.py, a Streamlit dashboard script.  The script is        *)
(* re-executed top to bottom on every user interaction (a "render cycle"). *)
(* The state is the widget state the framework keeps between cycles        *)
(* together with what the last cycle put on the page.  Every action is one *)
(* user interaction followed by the whole script run it triggers.          *)
(*                                                                         *)
(* Library behaviour is modelled as pandas 2.x / Streamlit document it:    *)
(*   - astype('str') on an object column turns NaN into the text 'nan';    *)
(*   - groupby drops NaN keys and sorts the groups by key;                 *)
(*   - sum/mean skip NaN; sum of object values concatenates, mean of       *)
(*     object values raises TypeError;                                     *)
(*   - value_counts drops NaN and sorts by descending count;               *)
(*   - st.slider raises unless min_value <= value <= max_value;            *)
(*   - a widget that is not reached in a run loses its state;              *)
(*   - st.radio whose option list changed starts again at its first        *)
(*     option; st.button is True only in the run its click triggered.      *)
(***************************************************************************)
EXTENDS Integers, Sequences, FiniteSets, TLC

(***************************************************************************)
(* Cells.  A cell is a pair <<tag, payload>>:                              *)
(*   <<"num", n>>      a number                                            *)
(*   <<"str", s>>      a text, s a sequence of atoms (concatenable)        *)
(*   <<"bool", b>>     a boolean                                           *)
(*   <<"frac", <<s, n>>>>  the rational s/n (a mean)                       *)
(*   <<"nan", 0>>      a missing value                                     *)
(***************************************************************************)
NaN == <<"nan", 0>>

Num(n) == <<"num", n>>

Text(a) == <<"str", <<a>>>>

IsNull(cell) == cell[1] = "nan"

\* Atoms in Python's string order ('A' < 'B' < ... < 'False' < 'True' < 'nan').
Alphabet ==
    <<"A", "B", "C", "D", "E", "F", "False", "G", "H", "I", "J", "K", "L", "M",
      "True", "nan">>

Letters == <<"A", "B", "C", "D", "E", "F", "G", "H", "I", "J", "K", "L", "M">>

AtomIndex(a) == CHOOSE i \in 1..Len(Alphabet) : Alphabet[i] = a

\* Order of two non-missing cells of one column, as Python sorts them.
CellLess(a, b) ==
    IF a[1] = "num" THEN a[2] < b[2]
    ELSE AtomIndex(a[2][1]) < AtomIndex(b[2][1])

Min(a, b) == IF a <= b THEN a ELSE b

Range(s) == {s[i] : i \in 1..Len(s)}

(***************************************************************************)
(* Program constants.                                                      *)
(***************************************************************************)
HeadDefault == 5

SliderMin == 5

SliderCap == 100

SliderDefault == 10

VizLimit == 1000

PieTop == 10

(***************************************************************************)
(* Bounds of the model.                                                    *)
(***************************************************************************)
MaxSmallRows == 3

MaxKeys == 2

Extra == 1

SalesLevels == 7

(***************************************************************************)
(* Uploaded files.  A file has a name (a sequence of characters), a flag   *)
(* saying whether the parser chokes on its bytes, and the frame the parser *)
(* returns otherwise: columns in file order, one dtype per column as the   *)
(* parser infers it, and the rows.                                         *)
(***************************************************************************)
Columns == <<"city", "sales">>

ColumnSet == Range(Columns)

\* dtype inference of pd.read_csv / pd.read_excel for one column.
InferDtype(cells) ==
    IF Len(cells) = 0 THEN "object"
    ELSE IF \A i \in 1..Len(cells) : cells[i][1] \in {"num", "nan"} THEN "number"
    ELSE IF \A i \in 1..Len(cells) : cells[i][1] = "bool" THEN "bool"
    ELSE "object"

Frame(rows) ==
    [columns |-> Columns,
     dtypes |-> [city |-> InferDtype([i \in 1..Len(rows) |-> rows[i].city]),
                 sales |-> InferDtype([i \in 1..Len(rows) |-> rows[i].sales])],
     rows |-> rows]

GenKey(i, k, pat) ==
    IF i <= k THEN i
    ELSE IF pat = "cycle" THEN ((i - 1) % k) + 1
    ELSE k

GenCity(i, k, xkind, pat, mx) ==
    IF mx /\ i % 3 = 2 THEN NaN
    ELSE IF xkind = "text" THEN Text(Letters[GenKey(i, k, pat)])
    ELSE IF xkind = "num" THEN Num(GenKey(i, k, pat))
    ELSE <<"bool", GenKey(i, k, pat) % 2 = 1>>

GenSales(i, my) ==
    IF my /\ i % 4 = 3 THEN NaN ELSE Num(10 * (((i - 1) % SalesLevels) + 1))

GenRows(n, k, xkind, pat, mx, my) ==
    SubSeq([i \in 1..n |-> [city |-> GenCity(i, k, xkind, pat, mx),
                            sales |-> GenSales(i, my)]], 1, n)

CsvName == <<"d", ".", "c", "s", "v">>

XlsxName == <<"d", ".", "x", "l", "s", "x">>

UpperName == <<"d", ".", "C", "S", "V">>

File(name, corrupt, rows) == [name |-> name, corrupt |-> corrupt, frame |-> Frame(rows)]

\* The example of the specification: city,sales = (A,10),(B,20),(A,30).
ExampleRows == GenRows(3, 2, "text", "cycle", FALSE, FALSE)

SmallFiles ==
    {File(CsvName, FALSE, GenRows(n, k, xk, pat, mx, my)) :
        n \in 0..MaxSmallRows, k \in 1..MaxKeys, xk \in {"text", "num", "bool"},
        pat \in {"cycle", "last"}, mx \in BOOLEAN, my \in BOOLEAN}

\* Datasets around the slider's default and the pie's limit, with more
\* distinct cities than the pie keeps.
MediumFiles ==
    {File(CsvName, FALSE, GenRows(n, PieTop + Extra, xk, "last", m, m)) :
        n \in {SliderDefault - 1, SliderDefault, PieTop + Extra + 1},
        xk \in {"text", "num"}, m \in BOOLEAN}

\* Datasets beyond the slider's cap and beyond the visualization limit.
LargeFiles ==
    {File(CsvName, FALSE, GenRows(n, MaxKeys, "text", "last", TRUE, TRUE)) :
        n \in {SliderCap + Extra, VizLimit + Extra}}

\* The uploader (type=['csv','xlsx'], matched without regard to case) lets
\* through a name in upper case; the parser can fail on any file.
OddFiles ==
    {File(name, corrupt, ExampleRows) :
        name \in {CsvName, XlsxName, UpperName}, corrupt \in BOOLEAN}

Corpus == SmallFiles \cup MediumFiles \cup LargeFiles \cup OddFiles

NoFile == [name |-> <<>>, corrupt |-> FALSE, frame |-> Frame(<<>>)]

(***************************************************************************)
(* Ingestion (lines 28-45).                                                *)
(***************************************************************************)
EndsWith(name, suffix) ==
    /\ Len(name) >= Len(suffix)
    /\ \A i \in 1..Len(suffix) : name[Len(name) - Len(suffix) + i] = suffix[i]

\* astype('str') of one cell of a bool/object column.
AsStr(cell) ==
    IF cell[1] = "nan" THEN Text("nan")
    ELSE IF cell[1] = "bool" THEN Text(IF cell[2] THEN "True" ELSE "False")
    ELSE cell

\* astype('str') applied to the cells of one row in the columns cols.
StrRow(row, cols) ==
    LET done[k \in 0..Len(cols)] ==
            IF k = 0 THEN row ELSE [done[k - 1] EXCEPT ![cols[k]] = AsStr(@)]
    IN  done[Len(cols)]

\* The dtypes after astype('str') of the columns cols.
StrDtypes(dtypes, cols) ==
    LET done[k \in 0..Len(cols)] ==
            IF k = 0 THEN dtypes ELSE [done[k - 1] EXCEPT ![cols[k]] = "object"]
    IN  done[Len(cols)]

\* Lines 37-38: every bool/object column becomes text, in place.
Coerce(frame) ==
    LET IsBoolCol(c) == frame.dtypes[c] \in {"bool", "object"}
        bool_col == SelectSeq(frame.columns, IsBoolCol)
    IN  [columns |-> frame.columns,
         dtypes |-> StrDtypes(frame.dtypes, bool_col),
         rows |-> SubSeq([i \in 1..Len(frame.rows) |->
                            StrRow(frame.rows[i], bool_col)], 1, Len(frame.rows))]

\* Variant of Ingest whose handler swallows the failure and goes on.
IngestAnyway(file) == [ok |-> TRUE, data |-> Coerce(file.frame)]

\* Lines 29-45: "ok" with the coerced dataset, or "error" (an exception of
\* the parser, or the NameError of line 37 when no branch bound data).
Ingest(file) ==
    LET name == file.name
        bound == \/ EndsWith(name, <<".", "c", "s", "v">>)
                 \/ EndsWith(name, <<".", "x", "l", "s", "x">>)
                 \/ EndsWith(name, <<".", "x", "l", "s">>)
    IN  IF bound /\ ~file.corrupt
        THEN [ok |-> TRUE, data |-> Coerce(file.frame)]
        ELSE [ok |-> FALSE, data |-> Frame(<<>>)]

(***************************************************************************)
(* Dataframe operations used by the script.                                *)
(***************************************************************************)
\* DataFrame.head(n): the first n rows, all of them when there are fewer.
HeadRows(frame, n) ==
    [columns |-> frame.columns, dtypes |-> frame.dtypes,
     rows |-> SubSeq(frame.rows, 1, Min(n, Len(frame.rows)))]

\* Variant of Project that lists the columns in the order of the dataset.
ProjectInFileOrder(frame, cols) ==
    LET Chosen(c) == c \in Range(cols)
    IN  [columns |-> SelectSeq(frame.columns, Chosen),
         dtypes |-> [c \in Range(cols) |-> frame.dtypes[c]],
         rows |-> SubSeq([i \in 1..Len(frame.rows) |->
                            [c \in Range(cols) |-> frame.rows[i][c]]], 1, Len(frame.rows))]

\* data[selected_col]: the listed columns, in the order of the list.
Project(frame, cols) ==
    [columns |-> cols,
     dtypes |-> [c \in Range(cols) |-> frame.dtypes[c]],
     rows |-> SubSeq([i \in 1..Len(frame.rows) |->
                        [c \in Range(cols) |-> frame.rows[i][c]]], 1, Len(frame.rows))]

\* data.isnull().sum().sum() (line 61).
MissingCount(frame) ==
    LET Nulls(c) == Cardinality({i \in 1..Len(frame.rows) : IsNull(frame.rows[i][c])})
        total[k \in 0..Len(frame.columns)] ==
            IF k = 0 THEN 0 ELSE total[k - 1] + Nulls(frame.columns[k])
    IN  total[Len(frame.columns)]

Column(frame, c) ==
    SubSeq([i \in 1..Len(frame.rows) |-> frame.rows[i][c]], 1, Len(frame.rows))

RECURSIVE SortCells(_)
\* The cells of a set in ascending order.
SortCells(S) ==
    IF S = {} THEN <<>>
    ELSE LET least == CHOOSE g \in S : \A h \in S : ~CellLess(h, g)
         IN  <<least>> \o SortCells(S \ {least})

\* The distinct non-missing values of a sequence of cells, sorted.
SortedKeys(cells) ==
    SortCells({cells[i] : i \in {j \in 1..Len(cells) : ~IsNull(cells[j])}})

RECURSIVE AddUp(_, _, _)
\* Sum of the numbers of cells[lo..hi]; the caller has removed the NaN.
AddUp(cells, lo, hi) ==
    IF lo > hi THEN 0
    ELSE IF lo = hi THEN cells[lo][2]
    ELSE LET mid == (lo + hi) \div 2
         IN  AddUp(cells, lo, mid) + AddUp(cells, mid + 1, hi)

RECURSIVE Concat(_, _, _)
\* Concatenation of the texts of cells[lo..hi], in order.
Concat(cells, lo, hi) ==
    IF lo > hi THEN <<>>
    ELSE IF lo = hi THEN cells[lo][2]
    ELSE LET mid == (lo + hi) \div 2
         IN  Concat(cells, lo, mid) \o Concat(cells, mid + 1, hi)

NotNull(cell) == ~IsNull(cell)

\* Variant of ReduceSum that keeps the last value of the group (.last()).
ReduceLast(cells, dtype) == IF Len(cells) = 0 THEN Num(0) ELSE cells[Len(cells)]

\* SeriesGroupBy.sum(): NaN skipped, 0 for no value; texts concatenate.
ReduceSum(cells, dtype) ==
    IF dtype = "number"
    THEN LET vals == SelectSeq(cells, NotNull) IN Num(AddUp(vals, 1, Len(vals)))
    ELSE <<"str", Concat(cells, 1, Len(cells))>>

\* SeriesGroupBy.mean() of a numeric column: NaN skipped, NaN for no value.
ReduceMean(cells, dtype) ==
    LET vals == SelectSeq(cells, NotNull)
    IN  IF Len(vals) = 0 THEN NaN
        ELSE <<"frac", <<AddUp(vals, 1, Len(vals)), Len(vals)>>>>

\* The Y cells of the rows whose X cell is g, in row order.
GroupCells(frame, x, y, g) ==
    LET InGroup(row) == row[x] = g
    IN  Column([rows |-> SelectSeq(frame.rows, InGroup)], y)

\* data_viz.groupby(x_axis)[y_axis].sum().reset_index() (line 149) and
\* .mean() (line 151): one row per non-missing key, sorted by key.
GroupBy(frame, x, y, how) ==
    LET keys == SortedKeys(Column(frame, x))
        red(g) == IF how = "Sum" THEN ReduceSum(GroupCells(frame, x, y, g), frame.dtypes[y])
                  ELSE ReduceMean(GroupCells(frame, x, y, g), frame.dtypes[y])
    IN  [columns |-> <<x, y>>,
         dtypes |-> [c \in {x, y} |-> frame.dtypes[c]],
         rows |-> [r \in 1..Len(keys) |-> [c \in {x, y} |->
                                              IF c = x THEN keys[r] ELSE red(keys[r])]]]

Least(S) == CHOOSE i \in S : \A j \in S : i <= j

RECURSIVE ByCount(_)
\* <<value, count>> of the entries of S, by descending count; entries of
\* equal count in order of first appearance.
ByCount(S) ==
    IF S = {} THEN <<>>
    ELSE LET Before(a, b) == a.n > b.n \/ (a.n = b.n /\ a.first < b.first)
             top == CHOOSE a \in S : \A b \in S : ~Before(b, a)
         IN  <<<<top.v, top.n>>>> \o ByCount(S \ {top})

\* Series.value_counts(): NaN dropped, one <<value, count>> per distinct
\* value, by descending count.
ValueCounts(cells) ==
    LET idx == {j \in 1..Len(cells) : ~IsNull(cells[j])}
        keys == {cells[i] : i \in idx}
        Rows(g) == {i \in idx : cells[i] = g}
    IN  ByCount({[v |-> g, n |-> Cardinality(Rows(g)), first |-> Least(Rows(g))] : g \in keys})

\* Variant of PieHead without the .head(10).
PieAll(counts) == counts

\* .head(10) of the counts (line 206).
PieHead(counts) == SubSeq(counts, 1, Min(PieTop, Len(counts)))

(***************************************************************************)
(* One run of the script (lines 26-222).                                   *)
(***************************************************************************)
VARIABLES
    uploaded_file,  \* the file held by st.file_uploader, or NoFile
    selected_col,   \* st.multiselect: the chosen columns, in order of choice
    num_rows,       \* st.slider
    show_all_data,  \* st.checkbox
    x_axis,         \* st.selectbox key='x_axis'
    y_axis,         \* st.selectbox key='y_axis'
    agg_option,     \* st.radio
    clicked,        \* the button whose click triggered the last run, or "none"
    page            \* what the last run rendered

vars ==
    <<uploaded_file, selected_col, num_rows, show_all_data, x_axis, y_axis,
      agg_option, clicked, page>>

Kinds == {"line", "scatter", "bar", "pie"}

\* Variant of AggOptions without the equal-axes test of line 135.
AggOptionsAll(x, y) == <<"Raw", "Sum", "Average">>

\* Lines 135-139.
AggOptions(x, y) == IF x = y THEN <<"Raw">> ELSE <<"Raw", "Sum", "Average">>

\* st.radio (lines 141-145): a member of options; the first one when the
\* kept value is not offered.
Radio(options, value) == IF value \in Range(options) THEN value ELSE options[1]

\* st.slider(label, 5, min(len(data), 100), 10) raises unless 5 <= 10 <= max.
SliderRaises(max) == ~(SliderMin <= SliderDefault /\ SliderDefault <= max)

\* Variant of VizSubset that never truncates.
VizAll(data, all) == data

\* Lines 121-124.
VizSubset(data, all) == IF all THEN data ELSE HeadRows(data, VizLimit)

\* Lines 148-151 raise when mean() meets an object column, and when
\* reset_index() would insert a column that is already there.
AggregationRaises(frame, x, y, agg) ==
    agg \in {"Sum", "Average"} /\ (x = y \/ (agg = "Average" /\ frame.dtypes[y] = "object"))

\* Lines 147-152.
Aggregate(frame, x, y, agg) ==
    IF agg \in {"Sum", "Average"} THEN GroupBy(frame, x, y, agg) ELSE frame

\* Lines 168-213: the chart drawn for the pressed button.
Chart(kind, data_viz, x, y, agg) ==
    IF kind = "pie"
    THEN [kind |-> kind, x |-> x, y |-> y, agg |-> agg, xs |-> <<>>, ys |-> <<>>,
          slices |-> PieHead(ValueCounts(Column(data_viz, x)))]
    ELSE [kind |-> kind, x |-> x, y |-> y, agg |-> agg,
          xs |-> Column(data_viz, x), ys |-> Column(data_viz, y), slices |-> <<>>]

BlankPage ==
    [footer |-> FALSE, error |-> FALSE, exception |-> "none", steps |-> {},
     preview |-> <<>>, metrics |-> <<>>, slider |-> <<>>, table |-> <<>>,
     agg_options |-> <<>>, charts |-> <<>>]

\* The widget values a run returns when it does not reach the widgets.
Defaults ==
    [selected_col |-> <<>>, num_rows |-> SliderDefault, show_all_data |-> FALSE,
     x_axis |-> Columns[1], y_axis |-> Columns[1], agg_option |-> "Raw"]

\* Variant of Drawn in which the line chart is drawn without its button.
DrawnStale(btn) == IF btn \in Kinds THEN <<btn>> ELSE <<"line">>

\* Lines 168, 180, 192, 204: the chart branches taken in a run in which the
\* flag of button btn is True (no flag is True when btn is "none").
Drawn(btn) == IF btn \in Kinds THEN <<btn>> ELSE <<>>

\* Lines 106-213, reached with the dataset and the page built so far.
Visualize(data, w, btn, sofar) ==
    LET data_viz == VizSubset(data, w.show_all_data)
        agg_options == AggOptions(w.x_axis, w.y_axis)
        agg == Radio(agg_options, w.agg_option)
        widgets == [w EXCEPT !.agg_option = agg]
        settings == [sofar EXCEPT !.steps = @ \cup {"settings", "axes", "aggregation"},
                                  !.agg_options = agg_options]
        drawn == Drawn(btn)
    IN  IF AggregationRaises(data_viz, w.x_axis, w.y_axis, agg)
        THEN [w |-> widgets, page |-> [settings EXCEPT !.exception = "groupby"]]
        ELSE [w |-> widgets,
              page |-> [settings EXCEPT
                  !.steps = @ \cup {"buttons"},
                  !.charts = [i \in 1..Len(drawn) |->
                                 Chart(drawn[i], Aggregate(data_viz, w.x_axis, w.y_axis, agg),
                                       w.x_axis, w.y_axis, agg)]]]

\* Lines 47-104, then the visualization.
Explore(data, w, btn) ==
    LET top == [BlankPage EXCEPT
                   !.steps = {"preview", "overview", "tabs", "select"},
                   !.preview = <<HeadRows(data, HeadDefault)>>,
                   !.metrics = <<[rows |-> Len(data.rows), columns |-> Len(data.columns),
                                  missing |-> MissingCount(data)]>>]
        max == Min(Len(data.rows), SliderCap)
    IN  IF w.selected_col # <<>>
        THEN IF SliderRaises(max)
             THEN [w |-> [Defaults EXCEPT !.selected_col = w.selected_col],
                   page |-> [top EXCEPT !.exception = "slider"]]
             ELSE Visualize(data, w, btn,
                      [top EXCEPT
                          !.steps = @ \cup {"table"},
                          !.slider = <<[min |-> SliderMin, max |-> max, value |-> w.num_rows]>>,
                          !.table = <<HeadRows(Project(data, w.selected_col), w.num_rows)>>])
        ELSE Visualize(data, [w EXCEPT !.num_rows = SliderDefault], btn,
                 [top EXCEPT !.steps = @ \cup {"table"},
                             !.table = <<HeadRows(data, HeadDefault)>>])

\* The whole script: w holds the widget values the framework hands to the
\* run, btn the button whose click triggered it ("none" for any other cause).
Run(file, w, btn) ==
    IF file = NoFile
    THEN [w |-> Defaults, page |-> [BlankPage EXCEPT !.footer = TRUE]]
    ELSE LET ing == Ingest(file)
         IN  IF ~ing.ok
             THEN [w |-> Defaults, page |-> [BlankPage EXCEPT !.error = TRUE]]
             ELSE Explore(ing.data, w, btn)

Widgets ==
    [selected_col |-> selected_col, num_rows |-> num_rows,
     show_all_data |-> show_all_data, x_axis |-> x_axis, y_axis |-> y_axis,
     agg_option |-> agg_option]

\* The state after the run that an interaction triggers.
Rerun(file, w, btn) ==
    \E r \in {Run(file, w, btn)} :
        /\ uploaded_file' = file
        /\ selected_col' = r.w.selected_col
        /\ num_rows' = r.w.num_rows
        /\ show_all_data' = r.w.show_all_data
        /\ x_axis' = r.w.x_axis
        /\ y_axis' = r.w.y_axis
        /\ agg_option' = r.w.agg_option
        /\ clicked' = btn
        /\ page' = r.page

(***************************************************************************)
(* The session: the first run, then one action per user interaction.       *)
(***************************************************************************)
Init ==
    /\ uploaded_file = NoFile
    /\ selected_col = Defaults.selected_col
    /\ num_rows = Defaults.num_rows
    /\ show_all_data = Defaults.show_all_data
    /\ x_axis = Defaults.x_axis
    /\ y_axis = Defaults.y_axis
    /\ agg_option = Defaults.agg_option
    /\ clicked = "none"
    /\ page = Run(NoFile, Defaults, "none").page

\* A file is dropped on the empty uploader (line 26).
Upload(f) ==
    /\ uploaded_file = NoFile
    /\ Rerun(f, Widgets, "none")

\* The file is removed from the uploader.
RemoveFile ==
    /\ uploaded_file # NoFile
    /\ Rerun(NoFile, Widgets, "none")

\* A column is added to the multiselect (line 97).
SelectColumn(c) ==
    /\ "select" \in page.steps
    /\ c \notin Range(selected_col)
    /\ Rerun(uploaded_file, [Widgets EXCEPT !.selected_col = Append(selected_col, c)], "none")

NotColumn(c) == LET Keep(d) == d # c IN SelectSeq(selected_col, Keep)

\* A column is taken out of the multiselect.
DeselectColumn(c) ==
    /\ "select" \in page.steps
    /\ c \in Range(selected_col)
    /\ Rerun(uploaded_file, [Widgets EXCEPT !.selected_col = NotColumn(c)], "none")

SliderChoices(max) ==
    {n \in {SliderMin, SliderDefault, SliderDefault + Extra, max} : SliderMin <= n /\ n <= max}

\* The slider is moved (line 100).
MoveSlider(n) ==
    /\ page.slider # <<>>
    /\ n \in SliderChoices(page.slider[1].max)
    /\ n # num_rows
    /\ Rerun(uploaded_file, [Widgets EXCEPT !.num_rows = n], "none")

\* The checkbox is ticked or cleared (line 119).
ToggleShowAll ==
    /\ "settings" \in page.steps
    /\ Rerun(uploaded_file, [Widgets EXCEPT !.show_all_data = ~show_all_data], "none")

\* Another X-axis column is chosen (line 130).
SelectX(c) ==
    /\ "axes" \in page.steps
    /\ c # x_axis
    /\ Rerun(uploaded_file, [Widgets EXCEPT !.x_axis = c], "none")

\* Another Y-axis column is chosen (line 132).
SelectY(c) ==
    /\ "axes" \in page.steps
    /\ c # y_axis
    /\ Rerun(uploaded_file, [Widgets EXCEPT !.y_axis = c], "none")

\* Another aggregation is chosen among the offered ones (line 141).
SelectAgg(a) ==
    /\ a \in Range(page.agg_options)
    /\ a # agg_option
    /\ Rerun(uploaded_file, [Widgets EXCEPT !.agg_option = a], "none")

\* One of the four chart buttons is pressed (lines 158-164).
Press(kind) ==
    /\ "buttons" \in page.steps
    /\ Rerun(uploaded_file, Widgets, kind)

Next ==
    \/ \E f \in Corpus : Upload(f)
    \/ RemoveFile
    \/ \E c \in ColumnSet : SelectColumn(c)
    \/ \E c \in ColumnSet : DeselectColumn(c)
    \/ \E n \in SliderMin..SliderCap : MoveSlider(n)
    \/ ToggleShowAll
    \/ \E c \in ColumnSet : SelectX(c)
    \/ \E c \in ColumnSet : SelectY(c)
    \/ \E a \in {"Raw", "Sum", "Average"} : SelectAgg(a)
    \/ \E kind \in Kinds : Press(kind)

Spec == Init /\ [][Next]_vars

(***************************************************************************)
(* Properties.                                                             *)
(***************************************************************************)
\* The dataset of the current file, as the run binds it to `data`.
Data == Ingest(uploaded_file).data

\* The rows the visualization starts from: all of them, or the first 1000.
SubsetRows ==
    LET rows == Data.rows
    IN  IF show_all_data THEN rows ELSE SubSeq(rows, 1, Min(VizLimit, Len(rows)))

\* The non-missing values of column c among rows.
KeysOf(rows, c) == {rows[i][c] : i \in 1..Len(rows)} \ {NaN}

\* How many of rows hold v in column c.
Occurrences(rows, c, v) == Cardinality({i \in 1..Len(rows) : rows[i][c] = v})

RECURSIVE Weighted(_, _, _, _, _)
\* The sum over the numbers v of S of v times the number of rows whose
\* column x holds g and whose column y holds v.
Weighted(S, rows, x, y, g) ==
    IF S = {} THEN 0
    ELSE LET v == CHOOSE u \in S : TRUE
         IN  v * Cardinality({i \in 1..Len(rows) : rows[i][x] = g /\ rows[i][y] = Num(v)})
             + Weighted(S \ {v}, rows, x, y, g)

\* The total and the number of the non-missing y of the rows whose x is g.
GroupTotal(rows, x, y, g) ==
    Weighted({rows[i][y][2] : i \in {j \in 1..Len(rows) : ~IsNull(rows[j][y])}}, rows, x, y, g)

GroupSize(rows, x, y, g) ==
    Cardinality({i \in 1..Len(rows) : rows[i][x] = g /\ ~IsNull(rows[i][y])})

\* The reduced value the chart must show for group g.
Reduced(rows, x, y, g, agg) ==
    IF agg = "Sum" THEN Num(GroupTotal(rows, x, y, g))
    ELSE IF GroupSize(rows, x, y, g) = 0 THEN NaN
    ELSE <<"frac", <<GroupTotal(rows, x, y, g), GroupSize(rows, x, y, g)>>>>

\* chart c plots one point per key of keys, with the reduction of its group.
PlotsGroups(c, rows, keys) ==
    /\ Len(c.xs) = Cardinality(keys)
    /\ Range(c.xs) = keys
    /\ Len(c.ys) = Len(c.xs)
    /\ (\A i \in 1..Len(rows) : rows[i][c.y][1] \in {"num", "nan"}) =>
          \A r \in 1..Len(c.xs) : c.ys[r] = Reduced(rows, c.x, c.y, c.xs[r], c.agg)

Charts == {page.charts[k] : k \in 1..Len(page.charts)}

XYCharts == {c \in Charts : c.kind # "pie"}

Pies == {c \in Charts : c.kind = "pie"}

\* C1: in every run that reaches the axes, equal axes offer exactly
\* ["Raw"], the mode in effect is Raw and a chart drawn in that run plots
\* the unreduced rows; different axes offer exactly Raw, Sum, Average.
C1_SameAxesForceRaw ==
    "axes" \in page.steps =>
        /\ x_axis = y_axis =>
              /\ page.agg_options = <<"Raw">>
              /\ agg_option = "Raw"
              /\ \A c \in Charts : c.agg = "Raw"
              /\ \A c \in XYCharts : \A sub \in {SubsetRows} :
                    /\ Len(c.xs) = Len(sub)
                    /\ \A i \in 1..Len(c.xs) : c.xs[i] = sub[i][x_axis]
                    /\ c.ys = c.xs
        /\ x_axis # y_axis => page.agg_options = <<"Raw", "Sum", "Average">>

C1_Witness ==
    /\ "axes" \in page.steps
    /\ x_axis = "sales" /\ y_axis = "sales"
    /\ XYCharts # {}
    /\ Len(uploaded_file.frame.rows) >= 2

C3_PieCountsSubsetRows ==
    \A c \in Pies : \A sub \in {SubsetRows} :
        \A k \in 1..Len(c.slices) :
            c.slices[k][2] = Occurrences(sub, c.x, c.slices[k][1])

\* C4 as claimed: the Missing Values metric is the number of missing entries
\* of the uploaded file, over all its columns.
C4_MissingCountsFileEntries ==
    page.metrics # <<>> =>
        page.metrics[1].missing =
            Cardinality({ic \in (1..Len(uploaded_file.frame.rows)) \X ColumnSet :
                            IsNull(uploaded_file.frame.rows[ic[1]][ic[2]])})

\* The displayed table holds the first n rows of the dataset, restricted to
\* the columns cols, listed in that order.
TableShows(cols, n) ==
    /\ page.table # <<>>
    /\ \A table \in {page.table[1]} : \A rows \in {Data.rows} :
          /\ table.columns = cols
          /\ Len(table.rows) = Min(n, Len(rows))
          /\ \A i \in 1..Len(table.rows) :
                /\ DOMAIN table.rows[i] = Range(cols)
                /\ \A c \in Range(cols) : table.rows[i][c] = rows[i][c]

InSelection(c) == c \in Range(selected_col)

C6_SliderWellFormed ==
    ("select" \in page.steps /\ selected_col # <<>>) =>
        /\ page.exception = "none"
        /\ page.slider # <<>>
        /\ SliderMin <= SliderDefault /\ SliderDefault <= page.slider[1].max
        /\ page.slider[1].max = Min(Len(uploaded_file.frame.rows), SliderCap)
        /\ SliderMin <= num_rows /\ num_rows <= page.slider[1].max
        /\ page.table # <<>>

GoodNames == {CsvName, XlsxName}

Unreadable == uploaded_file.corrupt \/ uploaded_file.name \notin GoodNames

\* C7: a run whose file cannot be read shows the error and executes no
\* later step; the later steps execute only on a file that was parsed and
\* whose bool/object columns were all turned into text.
C7_FailStop ==
    /\ (uploaded_file # NoFile /\ Unreadable) =>
          /\ page.error
          /\ page = [BlankPage EXCEPT !.error = TRUE]
    /\ page.steps # {} =>
          /\ uploaded_file # NoFile /\ ~Unreadable
          /\ ~page.error
          /\ page.preview # <<>>
          /\ Len(page.preview[1].rows) = Min(HeadDefault, Len(uploaded_file.frame.rows))
          /\ \A i \in 1..Len(page.preview[1].rows) : \A c \in ColumnSet :
                IF uploaded_file.frame.dtypes[c] \in {"bool", "object"}
                THEN page.preview[1].rows[i][c][1] = "str"
                ELSE page.preview[1].rows[i][c] = uploaded_file.frame.rows[i][c]

C7_Witness ==
    /\ uploaded_file # NoFile
    /\ uploaded_file.name = UpperName /\ ~uploaded_file.corrupt
    /\ page.error

\* C8: a chart of kind K is on the page exactly when the run was triggered
\* by the button of K; any other trigger leaves no chart; there is at most
\* one chart; and the chart is the one derived from this run's X-axis,
\* Y-axis, aggregation mode and toggle.
C8_ChartOnlyOnPress ==
    /\ Len(page.charts) <= 1
    /\ \A kind \in Kinds : (\E c \in Charts : c.kind = kind) <=> clicked = kind
    /\ clicked \notin Kinds => page.charts = <<>>
    /\ \A c \in Charts :
          c = Chart(clicked,
                    Aggregate(VizSubset(Data, show_all_data), x_axis, y_axis, agg_option),
                    x_axis, y_axis, agg_option)

C8_Witness ==
    /\ clicked = "scatter"
    /\ \E c \in Charts : c.kind = "scatter" /\ c.agg = "Average" /\ c.x = "sales"
    /\ show_all_data

\* The rows handed to the chart renderer in the run that drew chart c.
Plotted(c) == Aggregate(VizSubset(Data, show_all_data), c.x, c.y, c.agg).rows

C10_TruncationFirst ==
    "buttons" \in page.steps =>
        \A rows \in {Data.rows} : \A sub \in {SubsetRows} :
            /\ page.metrics[1].rows = Len(uploaded_file.frame.rows)
            /\ page.preview[1].rows = SubSeq(rows, 1, Min(HeadDefault, Len(rows)))
            /\ TableShows(page.table[1].columns,
                          IF selected_col = <<>> THEN HeadDefault ELSE num_rows)
            /\ Len(sub) =
                  IF show_all_data THEN Len(uploaded_file.frame.rows)
                  ELSE Min(VizLimit, Len(uploaded_file.frame.rows))
            /\ \A i \in 1..Len(sub) : sub[i] = rows[i]
            /\ \A c \in XYCharts :
                  IF c.agg = "Raw"
                  THEN /\ Len(c.xs) = Len(sub) /\ Len(c.ys) = Len(sub)
                       /\ \A i \in 1..Len(sub) :
                             c.xs[i] = sub[i][c.x] /\ c.ys[i] = sub[i][c.y]
                  ELSE PlotsGroups(c, sub, KeysOf(sub, c.x))
            /\ \A c \in Pies :
                  /\ {c.slices[k][1] : k \in 1..Len(c.slices)} \subseteq KeysOf(sub, c.x)
                  /\ c.agg = "Raw" =>
                        \A k \in 1..Len(c.slices) :
                            c.slices[k][2] = Occurrences(sub, c.x, c.slices[k][1])

C10_Witness ==
    /\ Len(uploaded_file.frame.rows) > VizLimit
    /\ ~show_all_data
    /\ selected_col # <<>>
    /\ \E c \in XYCharts : c.agg = "Sum" /\ c.x = "sales"

====
